---- MODULE Spec2Model ----
(***************************************************************************)
(* model_downloader.py: ModelDownloader.download and the pieces it calls,  *)
(* as a state machine over the output directory (temporary file, final     *)
(* file), the remote resource and the HTTP exchanges of one invocation.    *)
(*                                                                         *)
(* An open handle keeps its file across unlink and rename (POSIX semantics, *)
(* which the rename at line 242 relies on to replace an existing final     *)
(* file): a handle is on the file the temporary path names, on the file    *)
(* the final path names, or on a file no path names any more.              *)
(* Time is counted in ticks, Second ticks to the second.                   *)
(***************************************************************************)
EXTENDS Integers, Sequences, FiniteSets, TLC

\* ---------------------------------------------------------------- bounds
\* Largest remote resource, in bytes.
MaxSize == 2
\* Largest chunk iter_content yields (the source's 64 KiB, scaled down).
MaxChunk == 2
\* Clock resolution: ticks per second.
Second == 2
\* Ticks the clock may advance after the epoch of the model.
MaxTicks == 2

\* ------------------------------------------------------------ vocabulary
AllProcs == {1, 2}
SeqProcs == {1}
\* Longest file the model lets a write produce (a resumed offset plus a full body).
MaxFile == MaxSize + 1
\* time.time() at the first state: any value of at least one second.
Epoch == Second
ClockCap == Epoch + MaxTicks

Min(a, b) == IF a < b THEN a ELSE b
Max(a, b) == IF a > b THEN a ELSE b

\* The remote resource: n bytes, byte i holding the value i, so that a byte out of
\* place shows. A zero byte is never part of a resource.
ResourceOf(n) == [i \in 1..n |-> i]
Resources == {ResourceOf(n) : n \in 1..MaxSize}

RECURSIVE Gcd(_, _)
Gcd(a, b) == IF b = 0 THEN a ELSE Gcd(b, a % b)
\* A number n/d in lowest terms.
Frac(n, d) == [n |-> n \div Gcd(n, d), d |-> d \div Gcd(n, d)]
Whole(n) == [n |-> n, d |-> 1]
\* line 119: 1024 * 1024
MiB == 1048576

VARIABLES
    remote,      \* the bytes the URL serves
    temp_path,   \* the file <filename>.download
    final_path,  \* the file <filename>
    fh,          \* per invocation: the open handle f of line 220
    s,           \* per invocation: the locals and attributes of download()
    obs,         \* per invocation: what an observer of the call has seen
    now,         \* time.time(), in ticks
    server,      \* "any": requests may fail and answers may deviate;
                 \* "standard": reliable, ranges advertised and honoured
    hist         \* of the directory: whether a rename of line 242 has happened, and
                 \* whether the resource was replaced since the last one

vars == <<remote, temp_path, final_path, fh, s, obs, now, server, hist>>

\* --------------------------------------------------------- the filesystem
Absent == [exists |-> FALSE, data |-> <<>>]
FileOf(data) == [exists |-> TRUE, data |-> data]
\* at: "closed", or the file the handle is on: "temp", "final" or "orphan".
NoHandle == [at |-> "closed", pos |-> 0, app |-> FALSE]

\* Path.exists() / Path.stat().st_size
Exists(path) == path.exists
SizeOf(path) == Len(path.data)
\* The content of a path as a set: empty when the file does not exist.
Snap(path) == IF path.exists THEN {path.data} ELSE {}

\* unlink(temp): the handles on the file keep it, nameless.
Unlinked(h) == [p \in AllProcs |-> IF h[p].at = "temp" THEN [h[p] EXCEPT !.at = "orphan"]
                                   ELSE h[p]]
\* rename(temp, final): the handles follow their files.
Renamed(h) == [p \in AllProcs |->
                 IF h[p].at = "temp" THEN [h[p] EXCEPT !.at = "final"]
                 ELSE IF h[p].at = "final" THEN [h[p] EXCEPT !.at = "orphan"]
                 ELSE h[p]]
\* The file a handle is on.
Target(h) == IF h.at = "temp" THEN temp_path
             ELSE IF h.at = "final" THEN final_path ELSE FileOf(<<>>)

\* write(2): data placed at pos, a gap before it reads as zero bytes.
Overwrite(c, pos, data) ==
    [i \in 1..Max(Len(c), pos + Len(data)) |->
        IF i > pos /\ i <= pos + Len(data) THEN data[i - pos]
        ELSE IF i <= Len(c) THEN c[i] ELSE 0]
\* Where a handle writes: the end of the file in append mode, else its own offset.
WritePos(h) == IF h.at = "orphan" THEN 0
               ELSE IF h.app THEN Len(Target(h).data) ELSE h.pos

\* ------------------------------------------------------- the code's tests
\* line 112
Percent(downloaded, total) == IF total > 0 THEN Frac(downloaded * 100, total) ELSE Whole(0)
\* line 181
UnknownSizeNeverZero(remote_size) == remote_size < 0
UnknownSize(remote_size) == remote_size = 0
\* line 161 (verify_download with an expected size)
SizeMatchesAtLeast(actual_size, expected_size) == actual_size >= expected_size
SizeMatchesNever(actual_size, expected_size) == FALSE
SizeMatches(actual_size, expected_size) == actual_size = expected_size
\* line 198, left operand: the probe is only made when resume was asked for
WantsResumeAlways(resume) == TRUE
WantsResume(resume) == resume
\* line 136
AdvertisesRanges(accept_ranges) == accept_ranges = "bytes"
\* line 207: a Range header is sent iff downloaded > 0
SendsRangeAboveOne(downloaded) == downloaded > 1
SendsRange(downloaded) == downloaded > 0
\* line 218
AppendModeAlwaysWrite(downloaded) == FALSE
AppendMode(downloaded) == downloaded > 0
\* line 228
ReportDueAlways(current_time, last_progress_time) == TRUE
ReportDue(current_time, last_progress_time) == current_time - last_progress_time >= Second
\* line 230: bytes per second as <<bytes, ticks>>; 0 when no time has elapsed
Speed(downloaded, last_downloaded_bytes, elapsed) ==
    IF elapsed > 0 THEN <<downloaded - last_downloaded_bytes, elapsed>> ELSE <<0, 1>>
\* line 224
CountedFromChunk(downloaded, n) == n
Counted(downloaded, n) == downloaded + n
\* line 238
IncompleteOnlyWhenShort(downloaded, remote_size) == downloaded < remote_size
Incomplete(downloaded, remote_size) == downloaded # remote_size

\* ------------------------------------------------------------- the server
\* The HEAD of get_remote_size fails, or carries no content-length (read as 0,
\* line 149), or carries the size.
SizeAnswers == IF server = "standard" THEN {"length"} ELSE {"fails", "no_length", "length"}
\* The HEAD of check_resume_support fails (False, line 138), or answers with or
\* without "accept-ranges: bytes".
ProbeAnswers == IF server = "standard" THEN {"bytes"} ELSE {"fails", "bytes", "absent"}

\* ------------------------------------------------------------ the session
Fresh == [pc |-> "idle", resume |-> FALSE, remote_size |-> 0, downloaded |-> 0,
          last_progress_time |-> 0, last_downloaded_bytes |-> 0, start_time |-> 0,
          body |-> <<>>, downloader |-> FALSE]

NoObs == [outcome |-> "none", why |-> "none", heads |-> 0, gets |-> 0,
          range |-> -1, probe |-> "unasked", resp |-> "none", io |-> FALSE,
          temp0 |-> {}, final0 |-> {}, offset |-> 0, written |-> 0,
          ended |-> FALSE, full |-> FALSE, tempEnd |-> {}, promoted |-> FALSE,
          unlinked |-> FALSE, log |-> <<>>, prev |-> [size |-> -1, same |-> TRUE],
          overlap |-> FALSE, moved |-> {}, exit |-> -1]

\* lines 118-119: the seconds left, when a speed above 0 was passed. The speed
\* <<bytes, ticks>> is multiplied by 1024 * 1024 as one in MB/s.
Eta(downloaded, total, speed) ==
    IF speed[1] > 0
    THEN {Frac((total - downloaded) * speed[2], speed[1] * Second * MiB)}
    ELSE {}

\* progress_callback(percent, message): the sink sees the percent and, from the
\* message, the speed and the time left; the observer notes the line of the call,
\* the time, and how many body bytes this call had written by then.
Call(o, percent, speed, eta, line) ==
    [o EXCEPT !.log = Append(@, [pct |-> percent, spd |-> speed, eta |-> eta,
                                 at |-> o.written, by |-> line, t |-> now])]
\* A callback made by download itself: a percent and a text.
Tell(o, percent, line) == Call(o, percent, <<0, 1>>, {}, line)
\* lines 110-125: _report_progress(downloaded, total, speed).
ReportProgress(o, downloaded, total, speed, line) ==
    Call(o, Percent(downloaded, total), speed, Eta(downloaded, total, speed), line)

\* line 184: the first callback of a call.
AnnounceNothing(o) == o
Announce(o) == Tell(o, Whole(0), 184)
\* line 244: the last callback of a completed download.
ConcludeNothing(o) == o
Conclude(o) == Tell(o, Whole(100), 244)

Running(p) == s[p].pc \notin {"idle", "done", "exited"}

Idle ==
    /\ remote \in Resources
    /\ final_path = Absent
    /\ fh = [p \in AllProcs |-> NoHandle]
    /\ s = [p \in AllProcs |-> Fresh]
    /\ obs = [p \in AllProcs |-> NoObs]
    /\ now = Epoch
    /\ hist = [promoted |-> FALSE, changed |-> FALSE]

\* An empty output directory, and a server of any kind.
Init == Idle /\ temp_path = Absent /\ server = "any"

\* The call ends by raising: download's own exceptions, or one that passes through.
Raise(p, why, o) ==
    /\ s' = [s EXCEPT ![p] = [@ EXCEPT !.pc = "done", !.body = <<>>]]
    /\ obs' = [obs EXCEPT ![p] = [o EXCEPT !.outcome = "error", !.why = why]]

\* main() lines 403-407: the arguments are parsed and the download step begins
\* with its prints; the local name downloader is not bound yet.
Start(p, resume) ==
    /\ s[p].pc = "idle"
    /\ s' = [s EXCEPT ![p] = [Fresh EXCEPT !.pc = "init", !.resume = resume]]
    /\ LET others == \E q \in AllProcs \ {p} : Running(q)
       IN  obs' = [q \in AllProcs |->
                    IF q = p THEN [NoObs EXCEPT !.temp0 = Snap(temp_path),
                                                !.final0 = Snap(final_path),
                                                !.prev = obs[p].prev,
                                                !.overlap = others]
                    ELSE IF Running(q) THEN [obs[q] EXCEPT !.overlap = TRUE]
                    ELSE obs[q]]
    /\ UNCHANGED <<remote, temp_path, final_path, fh, now, server, hist>>

\* main() lines 409-410 / download_model lines 296-297: a new ModelDownloader
\* (lines 89-103) is bound to downloader, and download(resume) is called.
Construct(p) ==
    /\ s[p].pc = "init"
    /\ s' = [s EXCEPT ![p] = [@ EXCEPT !.pc = "size", !.downloader = TRUE]]
    /\ UNCHANGED <<remote, temp_path, final_path, fh, obs, now, server, hist>>

\* lines 178-184: get_remote_size (lines 140-151), the zero test, the first callback.
ResolveSize(p) ==
    /\ s[p].pc = "size"
    /\ \E head \in SizeAnswers :
        LET o == [obs[p] EXCEPT !.heads = @ + 1]
            size == IF head = "length" THEN Len(remote) ELSE 0
        IN  IF head = "fails" THEN Raise(p, "size", o)
            ELSE IF UnknownSize(size) THEN Raise(p, "zero", o)
            ELSE /\ s' = [s EXCEPT ![p] = [@ EXCEPT !.pc = "final", !.remote_size = size]]
                 /\ obs' = [obs EXCEPT ![p] = Announce(o)]
    /\ UNCHANGED <<remote, temp_path, final_path, fh, now, server, hist>>

\* lines 187-192: the final file exists and verifies, exists and does not, or is absent.
CheckFinal(p) ==
    /\ s[p].pc = "final"
    /\ LET o == [obs[p] EXCEPT !.io = TRUE]
       IN  IF Exists(final_path)
           THEN IF SizeMatches(SizeOf(final_path), s[p].remote_size)
                THEN /\ s' = [s EXCEPT ![p] = [@ EXCEPT !.pc = "done"]]
                     /\ obs' = [obs EXCEPT ![p] =
                            [Tell(o, Whole(100), 189) EXCEPT !.outcome = "ok",
                                                             !.why = "cached"]]
                ELSE /\ s' = [s EXCEPT ![p] = [@ EXCEPT !.pc = "partial"]]
                     /\ obs' = [obs EXCEPT ![p] = Tell(o, Whole(0), 192)]
           ELSE /\ s' = [s EXCEPT ![p] = [@ EXCEPT !.pc = "partial"]]
                /\ obs' = [obs EXCEPT ![p] = o]
    /\ UNCHANGED <<remote, temp_path, final_path, fh, now, server, hist>>

\* lines 195-198: the size of the temporary file, 0 when there is none; with bytes
\* on disk the call goes on to the probe if resume was asked for, else to the unlink.
CheckPartial(p) ==
    /\ s[p].pc = "partial"
    /\ LET downloaded == IF Exists(temp_path) THEN SizeOf(temp_path) ELSE 0
       IN  s' = [s EXCEPT ![p] = [@ EXCEPT
                    !.downloaded = downloaded,
                    !.pc = IF downloaded > 0
                           THEN (IF WantsResume(s[p].resume) THEN "probe" ELSE "discard")
                           ELSE "get"]]
    /\ UNCHANGED <<remote, temp_path, final_path, fh, obs, now, server, hist>>

\* lines 198-199 with check_resume_support (lines 127-138).
Probe(p) ==
    /\ s[p].pc = "probe"
    /\ \E head \in ProbeAnswers :
        LET o == [obs[p] EXCEPT !.heads = @ + 1, !.probe = head]
        IN  IF head # "fails" /\ AdvertisesRanges(head)
            THEN /\ s' = [s EXCEPT ![p] = [@ EXCEPT !.pc = "get"]]
                 /\ obs' = [obs EXCEPT ![p] = Tell(o, Whole(0), 199)]
            ELSE /\ s' = [s EXCEPT ![p] = [@ EXCEPT !.pc = "discard"]]
                 /\ obs' = [obs EXCEPT ![p] = o]
    /\ UNCHANGED <<remote, temp_path, final_path, fh, now, server, hist>>

\* lines 202-203: unlink(missing_ok=True); downloaded = 0.
Discard(p) ==
    /\ s[p].pc = "discard"
    /\ temp_path' = Absent
    /\ fh' = Unlinked(fh)
    /\ s' = [s EXCEPT ![p] = [@ EXCEPT !.pc = "get", !.downloaded = 0]]
    /\ obs' = [obs EXCEPT ![p] = [@ EXCEPT !.unlinked = TRUE]]
    /\ UNCHANGED <<remote, final_path, now, server, hist>>

\* What the server may answer to the GET. Without a Range header: the whole
\* resource (200). With "bytes=k-": the rest from k (206) when k is inside the
\* resource, 416 when it is not, or the whole resource if the server ignores Range.
\* Any GET to a server that is not "standard" may also fail (no connection,
\* timeout, an error status).
Answers(range, k) ==
    LET standard == IF ~range THEN "200" ELSE IF k < Len(remote) THEN "206" ELSE "416"
    IN  IF server = "standard" THEN {standard} ELSE {"fails", "200", standard}
BodyOf(answer, k) ==
    IF answer = "200" THEN remote
    ELSE IF answer = "206" THEN SubSeq(remote, k + 1, Len(remote))
    ELSE <<>>

\* lines 206-218: headers, the session's start values, the GET and raise_for_status.
Get(p) ==
    /\ s[p].pc = "get"
    /\ LET k == s[p].downloaded
           range == SendsRange(k)
       IN  \E answer \in Answers(range, k) :
             LET o == [obs[p] EXCEPT !.gets = @ + 1, !.resp = answer, !.offset = k,
                                     !.range = IF range THEN k ELSE -1]
                 t == [s[p] EXCEPT !.start_time = now, !.last_downloaded_bytes = k]
             IN  IF answer \in {"fails", "416"}
                 THEN /\ s' = [s EXCEPT ![p] = [t EXCEPT !.pc = "done"]]
                      /\ obs' = [obs EXCEPT ![p] = [o EXCEPT !.outcome = "error",
                                                             !.why = "get"]]
                 ELSE /\ s' = [s EXCEPT ![p] = [t EXCEPT !.pc = "open",
                                                         !.body = BodyOf(answer, k)]]
                      /\ obs' = [obs EXCEPT ![p] = o]
    /\ UNCHANGED <<remote, temp_path, final_path, fh, now, server, hist>>

\* line 220: open(temp_path, 'ab' | 'wb'). Both create a missing file; 'wb' empties
\* an existing one.
Open(p) ==
    /\ s[p].pc = "open"
    /\ LET app == AppendMode(s[p].downloaded)
       IN  /\ temp_path' = IF app /\ Exists(temp_path) THEN temp_path ELSE FileOf(<<>>)
           /\ fh' = [fh EXCEPT ![p] = [at |-> "temp", pos |-> 0, app |-> app]]
    /\ s' = [s EXCEPT ![p] = [@ EXCEPT !.pc = "stream"]]
    /\ UNCHANGED <<remote, final_path, obs, now, server, hist>>

\* lines 221-232: one non-empty chunk: written, counted, and reported when a second
\* has gone by since the last report.
Chunk(p) ==
    /\ s[p].pc = "stream"
    /\ \E n \in 1..Min(MaxChunk, Len(s[p].body)) :
        LET chunk == SubSeq(s[p].body, 1, n)
            h == fh[p]
            pos == WritePos(h)
            downloaded == Counted(s[p].downloaded, Len(chunk))
            due == ReportDue(now, s[p].last_progress_time)
            elapsed == now - s[p].start_time
            o == [obs[p] EXCEPT !.written = @ + Len(chunk)]
            file == FileOf(Overwrite(Target(h).data, pos, chunk))
        IN  /\ pos + n <= MaxFile
            /\ temp_path' = IF h.at = "temp" THEN file ELSE temp_path
            /\ final_path' = IF h.at = "final" THEN file ELSE final_path
            /\ fh' = [fh EXCEPT ![p] = [h EXCEPT !.pos = IF h.at = "orphan" THEN 0
                                                         ELSE pos + n]]
            /\ s' = [s EXCEPT ![p] = [@ EXCEPT
                        !.body = SubSeq(@, n + 1, Len(@)),
                        !.downloaded = downloaded,
                        !.last_progress_time = IF due THEN now ELSE @]]
            /\ obs' = [obs EXCEPT ![p] =
                        IF due
                        THEN ReportProgress(o, downloaded, s[p].remote_size,
                                  Speed(downloaded, s[p].last_downloaded_bytes, elapsed),
                                  231)
                        ELSE o]
    /\ UNCHANGED <<remote, now, server, hist>>

\* line 220, leaving the with block: the handle is closed.
Closed(p) == fh' = [fh EXCEPT ![p] = NoHandle]

\* line 221: the iteration ends, having delivered the whole body or (the server
\* closing early) only a part of it.
EndStream(p) ==
    /\ s[p].pc = "stream"
    /\ server = "any" \/ s[p].body = <<>>
    /\ Closed(p)
    /\ s' = [s EXCEPT ![p] = [@ EXCEPT !.pc = "report", !.body = <<>>]]
    /\ obs' = [obs EXCEPT ![p] = [@ EXCEPT !.ended = TRUE, !.full = s[p].body = <<>>,
                                           !.tempEnd = Snap(temp_path)]]
    /\ UNCHANGED <<remote, temp_path, final_path, now, server, hist>>

\* lines 221, 248-249: the transport fails while the body is read.
StreamError(p) ==
    /\ s[p].pc = "stream"
    /\ server = "any"
    /\ Closed(p)
    /\ Raise(p, "stream", obs[p])
    /\ UNCHANGED <<remote, temp_path, final_path, now, server, hist>>

\* lines 223, 250-251: the write fails, the file being as long as the model lets a
\* file be (no space left on the device).
DiskFull(p) ==
    /\ s[p].pc = "stream"
    /\ s[p].body # <<>>
    /\ WritePos(fh[p]) + 1 > MaxFile
    /\ Closed(p)
    /\ Raise(p, "disk", obs[p])
    /\ UNCHANGED <<remote, temp_path, final_path, now, server, hist>>

\* lines 235-239: the final report, then the count is compared with the size.
FinalReport(p) ==
    /\ s[p].pc = "report"
    /\ LET o == ReportProgress(obs[p], s[p].downloaded, s[p].remote_size, <<0, 1>>, 235)
       IN  IF Incomplete(s[p].downloaded, s[p].remote_size)
           THEN Raise(p, "mismatch", o)
           ELSE /\ s' = [s EXCEPT ![p] = [@ EXCEPT !.pc = "rename"]]
                /\ obs' = [obs EXCEPT ![p] = o]
    /\ UNCHANGED <<remote, temp_path, final_path, fh, now, server, hist>>

\* line 242: rename(temp, final) replaces the final file; it raises when the
\* temporary file is no longer there.
Rename(p) ==
    /\ s[p].pc = "rename"
    /\ IF Exists(temp_path)
       THEN /\ final_path' = temp_path
            /\ temp_path' = Absent
            /\ fh' = Renamed(fh)
            /\ s' = [s EXCEPT ![p] = [@ EXCEPT !.pc = "complete"]]
            /\ obs' = [obs EXCEPT ![p] = [@ EXCEPT !.promoted = TRUE,
                                                   !.moved = Snap(temp_path)]]
            /\ hist' = [promoted |-> TRUE, changed |-> FALSE]
       ELSE /\ Raise(p, "rename", obs[p])
            /\ UNCHANGED <<temp_path, final_path, fh, hist>>
    /\ UNCHANGED <<remote, now, server>>

\* lines 244-246: the last callback and the return.
Complete(p) ==
    /\ s[p].pc = "complete"
    /\ s' = [s EXCEPT ![p] = [@ EXCEPT !.pc = "done"]]
    /\ obs' = [obs EXCEPT ![p] = [Conclude(@) EXCEPT !.outcome = "ok", !.why = "ok"]]
    /\ UNCHANGED <<remote, temp_path, final_path, fh, now, server, hist>>

\* main() lines 422-426: KeyboardInterrupt, at any point of the call. No handler of
\* download catches it; an open handle is closed on the way out.
Interrupt(p) ==
    /\ Running(p)
    /\ Closed(p)
    /\ s' = [s EXCEPT ![p] = [@ EXCEPT !.pc = "done", !.body = <<>>]]
    /\ obs' = [obs EXCEPT ![p] = [@ EXCEPT !.outcome = "interrupted", !.why = "interrupt"]]
    /\ UNCHANGED <<remote, temp_path, final_path, now, server, hist>>

\* main() lines 420, 426, 430 and line 434: the status the process exits with.
\* The handler of KeyboardInterrupt reads downloader.temp_path (line 424): with
\* the name unbound, an UnboundLocalError leaves main() and the interpreter ends
\* with its traceback and status 1.
ExitStatus(outcome, downloader) ==
    IF outcome = "ok" THEN 0
    ELSE IF outcome = "interrupted" /\ downloader THEN 130
    ELSE 1

\* main() lines 412-430: the prints after the call, or a handler, and the exit.
Exit(p) ==
    /\ s[p].pc = "done"
    /\ s' = [s EXCEPT ![p] = [@ EXCEPT !.pc = "exited"]]
    /\ obs' = [obs EXCEPT ![p] = [@ EXCEPT !.exit = ExitStatus(obs[p].outcome, s[p].downloader)]]
    /\ UNCHANGED <<remote, temp_path, final_path, fh, now, server, hist>>

\* The process is gone. What the
\* next invocation inherits is the directory; an attempt that ended abnormally
\* after its GET also leaves the observer the size of the temporary file.
\* The clock is counted from the start of the oldest invocation under way.
Return(p) ==
    /\ s[p].pc = "exited"
    /\ s' = [s EXCEPT ![p] = Fresh]
    /\ obs' = [obs EXCEPT ![p] = [NoObs EXCEPT !.prev =
                    [size |-> IF obs[p].outcome # "ok" /\ obs[p].gets > 0 /\ ~obs[p].promoted
                              THEN (IF Exists(temp_path) THEN SizeOf(temp_path) ELSE 0)
                              ELSE -1,
                     same |-> TRUE]]]
    /\ now' = IF \E q \in AllProcs \ {p} : s[q].pc # "idle" THEN now ELSE Epoch
    /\ UNCHANGED <<remote, temp_path, final_path, fh, server, hist>>

\* The clock of lines 211 and 227 advances while a response is being read.
Tick ==
    /\ \E p \in AllProcs : s[p].pc \in {"open", "stream"}
    /\ now < ClockCap
    /\ now' = now + 1
    /\ UNCHANGED <<remote, temp_path, final_path, fh, s, obs, server, hist>>

\* Between invocations the publisher replaces the resource behind the URL.
ChangeRemote ==
    /\ \A p \in AllProcs : s[p].pc = "idle"
    /\ remote' \in Resources \ {remote}
    /\ obs' = [p \in AllProcs |-> [obs[p] EXCEPT !.prev.same = FALSE]]
    /\ hist' = [hist EXCEPT !.changed = TRUE]
    /\ UNCHANGED <<temp_path, final_path, fh, s, now, server>>

Step(p) ==
    \/ \E resume \in BOOLEAN : Start(p, resume)
    \/ Construct(p)
    \/ ResolveSize(p)
    \/ CheckFinal(p)
    \/ CheckPartial(p)
    \/ Probe(p)
    \/ Discard(p)
    \/ Get(p)
    \/ Open(p)
    \/ Chunk(p)
    \/ EndStream(p)
    \/ StreamError(p)
    \/ DiskFull(p)
    \/ FinalReport(p)
    \/ Rename(p)
    \/ Complete(p)
    \/ Interrupt(p)
    \/ Exit(p)
    \/ Return(p)

\* One invocation at a time, as section 5 of the design assumes.
Next == (\E p \in SeqProcs : Step(p)) \/ Tick \/ ChangeRemote

Spec == Init /\ [][Next]_vars

\* Two invocations on the same output directory and filename, one per process,
\* each started at any time and interleaved in any way, against a standard server
\* and with nobody interrupting.
StepConc(p) ==
    \/ \E resume \in BOOLEAN : Start(p, resume)
    \/ Construct(p)
    \/ ResolveSize(p)
    \/ CheckFinal(p)
    \/ CheckPartial(p)
    \/ Probe(p)
    \/ Discard(p)
    \/ Get(p)
    \/ Open(p)
    \/ Chunk(p)
    \/ EndStream(p)
    \/ FinalReport(p)
    \/ Rename(p)
    \/ Complete(p)

NextConc == \E p \in AllProcs : StepConc(p)

\* The directory is empty, or holds the temporary file an interrupted attempt left:
\* the first k bytes of the resource.
InitConc ==
    /\ Idle
    /\ temp_path \in {Absent} \cup {FileOf(SubSeq(remote, 1, k)) : k \in 1..(Len(remote) - 1)}
    /\ server = "standard"

SpecConc == InitConc /\ [][NextConc]_vars

\* ----------------------------------------------------------------------
\* What the claims speak of.
TempSize == IF Exists(temp_path) THEN SizeOf(temp_path) ELSE 0
\* The server answered the GET as asked: the range when one was requested (206),
\* the whole resource when none was (200).
Honoured(p) == obs[p].resp = (IF obs[p].range >= 0 THEN "206" ELSE "200")
\* The temporary file the call found held the first k bytes of the resource, k < T.
PrefixAtStart(p) ==
    \A c \in obs[p].temp0 : Len(c) < Len(remote) /\ c = SubSeq(remote, 1, Len(c))
\* The body was read to its end, and the call was not interrupted afterwards.
StreamCompleted(p) ==
    /\ s[p].pc = "done"
    /\ obs[p].ended /\ obs[p].full
    /\ obs[p].outcome # "interrupted"

\* C1: resuming from a temporary file that holds the first k bytes (0 <= k < T),
\* with the range honoured and the stream read to its end, ends with a final file
\* that is the T bytes of the resource, the same file a download without resume
\* ends with; the temporary file is opened for append iff a Range header was sent.
C1_ResumeEqualsFresh ==
    \A p \in SeqProcs :
        /\ (StreamCompleted(p) /\ Honoured(p) /\ (s[p].resume => PrefixAtStart(p)))
              => /\ obs[p].outcome = "ok"
                 /\ final_path = FileOf(remote)
                 /\ SizeOf(final_path) = Len(remote)
                 /\ ~Exists(temp_path)
        /\ s[p].pc = "stream" => (fh[p].app <=> obs[p].range >= 0)

C1_Witness ==
    \E p \in SeqProcs :
        /\ StreamCompleted(p) /\ Honoured(p) /\ s[p].resume /\ PrefixAtStart(p)
        /\ obs[p].range = 1 /\ obs[p].temp0 = {SubSeq(remote, 1, 1)}
        /\ Len(remote) = 2
        /\ final_path = FileOf(remote)


\* Positions of a call after the final file was checked and before the rename.
BeforePromotion == {"partial", "probe", "discard", "get", "open", "stream", "report", "rename"}

\* C2: when the stream has ended and the byte counter differs from the resolved
\* size, in either direction, the call fails without renaming: the final file is
\* as the call found it and the temporary file holds what it held when the stream
\* ended; only an equal counter gets as far as the rename.
C2_MismatchKeepsTemp ==
    \A p \in SeqProcs :
        /\ (s[p].pc = "done" /\ obs[p].ended /\ obs[p].outcome # "interrupted"
              /\ s[p].downloaded # s[p].remote_size)
              => /\ obs[p].outcome = "error" /\ obs[p].why = "mismatch"
                 /\ ~obs[p].promoted
                 /\ Snap(final_path) = obs[p].final0
                 /\ Exists(temp_path)
                 /\ Snap(temp_path) = obs[p].tempEnd
        /\ s[p].pc \in {"rename", "complete"} => s[p].downloaded = s[p].remote_size
        /\ obs[p].promoted => s[p].downloaded = s[p].remote_size

C2_Witness ==
    \E p \in SeqProcs :
        /\ s[p].pc = "done" /\ obs[p].why = "mismatch"
        /\ s[p].downloaded > s[p].remote_size
        /\ obs[p].final0 # {} /\ Snap(final_path) = obs[p].final0
        /\ TempSize = s[p].downloaded

\* C3: a Range header goes out only when the temporary file held bytes, resume was
\* asked for and the probe answered "accept-ranges: bytes". With bytes in the
\* temporary file and any of the three missing, the call is not aborted: the file
\* is unlinked, the GET carries no Range header and the file is written anew from
\* offset 0 ('wb').
C3_RangeOnlyWhenResumable ==
    \A p \in SeqProcs :
        LET held == \E c \in obs[p].temp0 : Len(c) > 0
            resumable == held /\ s[p].resume /\ obs[p].probe = "bytes"
        IN  /\ obs[p].range >= 0 => resumable
            /\ obs[p].gets > 0 => (obs[p].range >= 0 <=> resumable)
            /\ (obs[p].gets > 0 /\ held /\ ~resumable)
                  => /\ obs[p].unlinked /\ obs[p].offset = 0
                     /\ s[p].pc = "open" => ~Exists(temp_path)
                     /\ s[p].pc = "stream"
                           => /\ ~fh[p].app
                              /\ temp_path = FileOf(SubSeq(remote, 1, obs[p].written))
            /\ (s[p].pc = "done" /\ obs[p].gets = 0 /\ obs[p].outcome = "error")
                  => obs[p].why \in {"size", "zero"}
            /\ (~s[p].resume \/ obs[p].probe \in {"fails", "absent"}) => obs[p].range < 0

C3_Witness ==
    \E p \in SeqProcs :
        /\ s[p].pc = "stream" /\ s[p].resume /\ obs[p].probe = "fails"
        /\ \E c \in obs[p].temp0 : Len(c) > 0
        /\ obs[p].range < 0 /\ obs[p].unlinked /\ obs[p].written > 0

\* C4: with a final file whose size is the resolved size, the call returns at once:
\* one HEAD, no GET, and both files exactly as they were.
C4_CompleteIsNoOp ==
    \A p \in SeqProcs :
        LET complete == \E c \in obs[p].final0 : Len(c) = s[p].remote_size
        IN  /\ (s[p].pc = "done" /\ obs[p].why = "cached")
                  => /\ complete /\ obs[p].outcome = "ok"
                     /\ obs[p].heads = 1 /\ obs[p].gets = 0
                     /\ Snap(final_path) = obs[p].final0
                     /\ Snap(temp_path) = obs[p].temp0
                     /\ ~obs[p].unlinked /\ ~obs[p].promoted /\ obs[p].written = 0
            /\ (complete /\ s[p].remote_size > 0)
                  => /\ s[p].pc \notin BeforePromotion \cup {"complete"}
                     /\ obs[p].gets = 0

C4_Witness ==
    \E p \in SeqProcs :
        /\ s[p].pc = "done" /\ obs[p].why = "cached"
        /\ obs[p].temp0 # {} /\ Snap(temp_path) = obs[p].temp0
        /\ obs[p].heads = 1 /\ obs[p].gets = 0

\* C7: a resolved size of 0 ends the call with an error before anything else: no
\* file is looked at or changed, no GET is made, no callback is invoked; a call
\* that gets further has a size above 0.
C7_ZeroSizeRaisesFirst ==
    \A p \in SeqProcs :
        /\ (s[p].pc = "done" /\ obs[p].why = "zero")
              => /\ obs[p].outcome = "error"
                 /\ ~obs[p].io /\ obs[p].gets = 0 /\ obs[p].log = <<>>
                 /\ Snap(final_path) = obs[p].final0
                 /\ Snap(temp_path) = obs[p].temp0
        /\ (obs[p].io \/ obs[p].gets > 0 \/ obs[p].log # <<>>) => s[p].remote_size > 0

C7_Witness ==
    \E p \in SeqProcs :
        /\ s[p].pc = "done" /\ obs[p].why = "zero"
        /\ obs[p].temp0 # {} /\ Snap(temp_path) = obs[p].temp0 /\ obs[p].log = <<>>

\* C8: a download whose transfer completes has seen at least two callbacks: the
\* first with percent 0, before any byte of the body was written, the last with
\* percent 100, after the last byte was written, however little time went by.
C8_BoundaryCallbacks ==
    \A p \in SeqProcs :
        (s[p].pc = "done" /\ obs[p].why = "ok")
          => LET log == obs[p].log
             IN  /\ Len(log) >= 2
                 /\ log[1].pct = Whole(0) /\ log[1].at = 0
                 /\ log[Len(log)].pct = Whole(100)
                 /\ log[Len(log)].at = obs[p].written
                 /\ obs[p].offset + obs[p].written = s[p].remote_size

C8_Witness ==
    \E p \in SeqProcs :
        /\ s[p].pc = "done" /\ obs[p].why = "ok"
        /\ now = s[p].start_time
        /\ obs[p].written = 1

\* C9: a final file whose size is not the resolved size makes the call fall
\* through to the download, and stays exactly as it was until the rename; it is
\* still so when the attempt has failed before the rename.
C9_StaleFinalUntouched ==
    \A p \in SeqProcs :
        LET stale == \E c \in obs[p].final0 : Len(c) # s[p].remote_size
        IN  (stale /\ s[p].remote_size > 0)
              => /\ obs[p].why # "cached"
                 /\ (s[p].pc \in BeforePromotion \/ (s[p].pc = "done" /\ ~obs[p].promoted))
                       => Snap(final_path) = obs[p].final0
                 /\ (s[p].pc = "done" /\ obs[p].outcome = "error")
                       => Snap(final_path) = obs[p].final0

C9_Witness ==
    \E p \in SeqProcs :
        /\ \E c \in obs[p].final0 : Len(c) # s[p].remote_size
        /\ s[p].pc = "done" /\ obs[p].why = "stream" /\ obs[p].written > 0
        /\ Snap(final_path) = obs[p].final0


\* The call ended abnormally after its GET was issued: the transport failed, or the
\* call was interrupted.
Abnormal(p) ==
    /\ s[p].pc = "done" /\ obs[p].gets > 0
    /\ obs[p].why \in {"get", "stream", "interrupt"}
\* The server of this call supports ranges with standard semantics and delivered
\* whatever it sent in full; nothing interrupted the call.
GoodServer(p) ==
    /\ obs[p].why \notin {"size", "zero", "stream", "interrupt"}
    /\ obs[p].probe \in {"unasked", "bytes"}
    /\ obs[p].resp # "fails"
    /\ obs[p].resp = "200" => obs[p].range < 0
    /\ obs[p].ended => obs[p].full

\* C5: after an attempt that left a temporary file of any size k >= 0 behind, a
\* download with resume against a range-supporting server with the resource
\* unchanged, its stream delivered in full, completes and promotes the final file.
C5_ResumeAfterFailureCompletes ==
    \A p \in SeqProcs :
        (s[p].pc = "done" /\ s[p].resume /\ GoodServer(p)
          /\ obs[p].prev.size >= 0 /\ obs[p].prev.same)
          => /\ obs[p].outcome = "ok"
             /\ Exists(final_path) /\ SizeOf(final_path) = Len(remote)

\* C6 as stated: an attempt from offset k that ends abnormally after j bytes were
\* written leaves k+j bytes in the temporary file and the final file as it was,
\* and the next download with resume against a range-supporting server asks for
\* "bytes=(k+j)-".
C6_AbortLeavesResumableTemp ==
    \A p \in SeqProcs :
        /\ Abnormal(p) => /\ TempSize = obs[p].offset + obs[p].written
                          /\ Snap(final_path) = obs[p].final0
        /\ (obs[p].gets > 0 /\ s[p].resume /\ obs[p].prev.size >= 0
              /\ obs[p].probe \in {"unasked", "bytes"})
              => obs[p].range = obs[p].prev.size

\* C6, amended: an attempt from offset k that ends abnormally before the rename,
\* after j bytes were written, leaves k+j bytes in the temporary file (which exists
\* once a byte was written) and the final file as it was; the next download with
\* resume against a range-supporting server asks for "bytes=(k+j)-" when k+j > 0
\* and sends no Range header, starting at offset 0, when k+j = 0.
C6_AbortBeforeRenameLeavesResumableTemp ==
    \A p \in SeqProcs :
        /\ (Abnormal(p) /\ ~obs[p].promoted)
              => /\ TempSize = obs[p].offset + obs[p].written
                 /\ obs[p].written > 0 => Exists(temp_path)
                 /\ obs[p].temp0 # {} /\ ~obs[p].unlinked => Exists(temp_path)
                 /\ Snap(final_path) = obs[p].final0
        /\ (obs[p].gets > 0 /\ s[p].resume /\ obs[p].prev.size >= 0
              /\ obs[p].probe \in {"unasked", "bytes"})
              => /\ obs[p].offset = obs[p].prev.size
                 /\ obs[p].range = (IF obs[p].prev.size > 0 THEN obs[p].prev.size ELSE -1)

C6_Witness ==
    \E p \in SeqProcs :
        /\ obs[p].prev.size = 1 /\ s[p].resume /\ obs[p].range = 1
        /\ Abnormal(p) /\ obs[p].why = "interrupt" /\ obs[p].written = 1
        /\ TempSize = 2

\* C10: two invocations at once on the same temporary path are unsafe. An
\* invocation whose server honoured its request, that started from a temporary file
\* holding a prefix of the resource (or none) and renamed with its counter at the
\* remote size, promoted something other than the resource only if another
\* invocation ran at the same time; and with one it does happen (the witness).
C10_CorruptionOnlyWhenConcurrent ==
    \A p \in AllProcs :
        (obs[p].promoted /\ Honoured(p) /\ PrefixAtStart(p)
          /\ s[p].downloaded = s[p].remote_size /\ obs[p].moved # {remote})
          => obs[p].overlap

C10_Witness ==
    \E p \in AllProcs :
        /\ obs[p].promoted /\ Honoured(p) /\ PrefixAtStart(p)
        /\ s[p].downloaded = s[p].remote_size /\ s[p].remote_size = Len(remote)
        /\ obs[p].full
        /\ obs[p].moved # {remote}
        /\ obs[p].overlap
        /\ \A q \in AllProcs : obs[q].outcome # "interrupted" /\ obs[q].resp \in {"200", "206"}
                                /\ Honoured(q)

\* C11 as stated: from an empty output directory and one invocation at a time, in
\* every state the final file exists iff a rename of line 242 has happened, and
\* the temporary file and the final file never exist together.
C11_OneFileAtATime ==
    /\ Exists(final_path) <=> hist.promoted
    /\ ~(Exists(temp_path) /\ Exists(final_path))

\* C11, amended: from an empty output directory and one invocation at a time, in
\* every state the final file exists iff a rename of line 242 has happened, and
\* the temporary file and the final file exist together only when the resource
\* was replaced after that rename: the stale final file then stays beside the
\* temporary file of the new download.
C11_BothFilesOnlyAfterChange ==
    /\ Exists(final_path) <=> hist.promoted
    /\ (Exists(temp_path) /\ Exists(final_path)) => hist.changed

\* Between two invocations a stale final file lies beside a temporary file.
C11_Witness ==
    /\ \A p \in SeqProcs : s[p].pc = "idle"
    /\ Exists(temp_path) /\ Exists(final_path)
    /\ hist.promoted /\ hist.changed

\* The call took the resume branch: the "Resuming from byte" callback of line 199.
Resumed(p) == \E i \in DOMAIN obs[p].log : obs[p].log[i].by = 199

\* C12: in a resumed attempt the counter downloaded starts at the size the
\* temporary file has when the resume is decided, is from then on that size plus
\* the bytes written since, and no later step of the invocation decreases it.
C12_ResumedCounterMonotone ==
    /\ [](\A p \in SeqProcs :
            Resumed(p) =>
                /\ \A c \in obs[p].temp0 : s[p].downloaded = Len(c) + obs[p].written
                /\ obs[p].temp0 # {}
                /\ obs[p].gets = 0 => s[p].downloaded = TempSize)
    /\ [][\A p \in SeqProcs :
            (Resumed(p) /\ s'[p].pc # "idle") => s'[p].downloaded >= s[p].downloaded]_vars

\* A resumed attempt has written bytes after the ones it found, and completed.
C12_Witness ==
    \E p \in SeqProcs :
        /\ Resumed(p)
        /\ obs[p].written > 0
        /\ s[p].downloaded > obs[p].written
        /\ s[p].pc = "done" /\ obs[p].outcome = "ok"

\* The callbacks the sink got from the given lines of download, as log positions.
CallsBy(p, lines) == {i \in DOMAIN obs[p].log : obs[p].log[i].by \in lines}
\* The callbacks that are not the throttled reports of the loop (line 231), by percent.
BoundaryCalls(p, percent) ==
    {i \in DOMAIN obs[p].log : obs[p].log[i].by # 231 /\ obs[p].log[i].pct = percent}
ReturnedNormally(p) == s[p].pc = "done" /\ obs[p].outcome = "ok"

\* C13 as stated: over an invocation that returns normally the sink gets, besides
\* the throttled reports of the loop, exactly one call with percent 0 and exactly
\* one call with percent 100.
C13_OneCallAtEachEnd ==
    \A p \in SeqProcs :
        ReturnedNormally(p) =>
            /\ Cardinality(BoundaryCalls(p, Whole(0))) = 1
            /\ Cardinality(BoundaryCalls(p, Whole(100))) = 1

\* C13, amended: an invocation that finds the final file complete makes exactly
\* two callbacks, 0% then 100%. An invocation that returns after a transfer makes,
\* before any byte is written, the 0% callback of the start, one more 0% callback
\* iff it found a final file (of the wrong size), and one more iff it resumes (a
\* Range header is then sent); and after the last byte exactly two 100% callbacks,
\* the final report and then the completion, which end the log.
C13_BoundaryCallsCounted ==
    \A p \in SeqProcs :
        LET log == obs[p].log
            n == Len(log)
        IN  /\ (ReturnedNormally(p) /\ obs[p].why = "cached") =>
                /\ n = 2
                /\ log[1].by = 184 /\ log[1].pct = Whole(0)
                /\ log[2].by = 189 /\ log[2].pct = Whole(100)
            /\ (ReturnedNormally(p) /\ obs[p].why # "cached") =>
                /\ CallsBy(p, {184}) = {1}
                /\ Cardinality(CallsBy(p, {192})) = (IF obs[p].final0 # {} THEN 1 ELSE 0)
                /\ Cardinality(CallsBy(p, {199})) = (IF obs[p].range >= 0 THEN 1 ELSE 0)
                /\ \A i \in CallsBy(p, {184, 192, 199}) :
                        /\ log[i].pct = Whole(0) /\ log[i].at = 0
                        /\ \A j \in CallsBy(p, {231, 235, 244}) : i < j
                /\ CallsBy(p, {235}) = {n - 1}
                /\ CallsBy(p, {244}) = {n}
                /\ CallsBy(p, {189}) = {}
                /\ \A i \in {n - 1, n} :
                        log[i].pct = Whole(100) /\ log[i].at = obs[p].written
                /\ BoundaryCalls(p, Whole(100)) = {n - 1, n}

\* A resumed download beside a stale final file has returned: three callbacks
\* with 0% before the transfer, a report from the loop, two with 100% after it.
C13_Witness ==
    \E p \in SeqProcs :
        /\ ReturnedNormally(p) /\ obs[p].why = "ok"
        /\ Cardinality(BoundaryCalls(p, Whole(0))) = 3
        /\ CallsBy(p, {231}) # {}
        /\ Cardinality(BoundaryCalls(p, Whole(100))) = 2

\* C14: the process exits with 0 when download returned normally, with 130 when
\* the user interrupted the download step at any point after it began, and with
\* 1 after any other error; and with nothing else.
C14_ExitStatusByOutcome ==
    \A p \in SeqProcs :
        s[p].pc = "exited" =>
            obs[p].exit = (IF obs[p].outcome = "ok" THEN 0
                           ELSE IF obs[p].outcome = "interrupted" THEN 130
                           ELSE 1)

\* C15: when download returns normally the final file exists and its size is the
\* resolved remote size, and if a GET was issued the temporary file is gone; and
\* from the opening of the temporary file to the rename the counter downloaded
\* is the size of the temporary file.
C15_ReturnMeansFinalOfRemoteSize ==
    \A p \in SeqProcs :
        /\ ReturnedNormally(p) =>
            /\ Exists(final_path)
            /\ SizeOf(final_path) = s[p].remote_size
            /\ obs[p].gets > 0 => ~Exists(temp_path)
        /\ s[p].pc \in {"stream", "report", "rename"} =>
            /\ Exists(temp_path)
            /\ SizeOf(temp_path) = s[p].downloaded

\* A download that issued a GET and wrote bytes has returned normally.
C15_Witness ==
    \E p \in SeqProcs :
        /\ ReturnedNormally(p)
        /\ obs[p].gets > 0 /\ obs[p].written > 0
        /\ ~Exists(temp_path)
        /\ SizeOf(final_path) = s[p].remote_size

\* The reports made from inside the loop (line 231), as positions of a log.
LoopReports(log) == {i \in DOMAIN log : log[i].by = 231}
LastOf(positions) == CHOOSE i \in positions : \A j \in positions : j <= i

\* C16: any two reports made from inside the streaming loop are at least one
\* second apart; and a chunk processed when at least one second has passed since
\* the previous report of the loop is reported, at the time it is processed.
C16_LoopReportsThrottled ==
    /\ [](\A p \in SeqProcs :
            \A i, j \in LoopReports(obs[p].log) :
                i < j => obs[p].log[j].t - obs[p].log[i].t >= Second)
    /\ [][\A p \in SeqProcs :
            LET before == obs[p].log
                after == obs'[p].log
                made == LoopReports(before)
            IN  (/\ s[p].pc = "stream"
                 /\ obs'[p].written > obs[p].written
                 /\ made # {}
                 /\ now - before[LastOf(made)].t >= Second)
                    => /\ Len(after) = Len(before) + 1
                       /\ after[Len(after)].by = 231
                       /\ after[Len(after)].t = now
                       /\ after[Len(after)].at = obs'[p].written]_vars

\* Two reports were made from inside the loop of one invocation.
C16_Witness ==
    \E p \in SeqProcs :
        /\ Cardinality(LoopReports(obs[p].log)) >= 2
        /\ obs[p].written >= 2

\* The progress sample before the report at position i of the log: the previous
\* report of the loop, or the start of the transfer (line 211) when there is none.
SampleBefore(p, i) ==
    LET earlier == {j \in LoopReports(obs[p].log) : j < i}
    IN  IF earlier = {}
        THEN [at |-> 0, t |-> s[p].start_time]
        ELSE [at |-> obs[p].log[LastOf(earlier)].at, t |-> obs[p].log[LastOf(earlier)].t]

\* C17: the speed of each report of the loop is the bytes downloaded since the
\* last progress sample over the time since that sample, as a number of MiB per
\* second, and 0 when no time has passed; the time left reported with it is
\* (total - downloaded) bytes over that speed.
C17_SpeedPerSampleInMiB ==
    \A p \in SeqProcs :
        \A i \in LoopReports(obs[p].log) :
            LET r == obs[p].log[i]
                bytes == r.at - SampleBefore(p, i).at
                ticks == r.t - SampleBefore(p, i).t
            IN  /\ IF ticks > 0
                   THEN r.spd[1] * ticks * MiB = bytes * r.spd[2]
                   ELSE r.spd[1] = 0
                /\ r.eta = Eta(obs[p].offset + r.at, s[p].remote_size, r.spd)

====
